---- MODULE Spec2Model ----
(***************************************************************************)
(* Model of the ScriptRunner dispatch engine (src/opt/scriptrunner/app.py). *)
(*                                                                         *)
(* One POST /api/run request (run_command) is followed from the call to    *)
(* the return: the loop over payload.server_ids, the lookup of each id in  *)
(* the servers table, the loop over payload.commands with its os filter,   *)
(* one run_ssh_command per applicable command (connect, exec_command,      *)
(* reading the streams, close, and the except branch), the insert into the *)
(* runs table and the result list.                                         *)
(*                                                                         *)
(* Strings that the code concatenates (outputs) are sequences of tokens,   *)
(* so that concatenation is \o and the empty string is <<>>.               *)
(* The remote side is the environment: a connect, an exec_command or a     *)
(* read of the streams either succeeds or raises, and the streams carry    *)
(* any of the contents StdOuts / StdErrs.                                  *)
(***************************************************************************)
EXTENDS Integers, Sequences, FiniteSets, TLC

\* ---------------------------------------------------------------- bounds
\* largest request body: Len(server_ids) + Len(commands) <= MaxPayload
MaxPayload == 4

\* the ids a request may name; any of them may be a row of the servers table
ServerIds == {1, 2}
OSes == {"ubuntu", "centos"}
CmdTexts == {"echo hi"}
\* what stdout.read() / stderr.read() may return, decoded
StdOuts == {<<"hi">>}
StdErrs == {<<>>, <<"oops">>}
\* str(e) of the exception raised by connect / exec_command / read
ConnectErrText == "connect timed out"
ExecErrText == "exec failed"
ReadErrText == "read timed out"
KeyErrText == "not a valid RSA private key file"

\* a key that a command dict does not have
NoKey == "<no key>"

\* the dicts of payload.commands: well-formed ones and one without "cmd"
CmdObjs ==
    [os : OSes, cmd : CmdTexts] \cup {[os |-> "ubuntu", cmd |-> NoKey]}

RECURSIVE SeqsOfLen(_, _)
SeqsOfLen(S, n) ==
    IF n = 0 THEN {<<>>}
    ELSE {Append(s, x) : s \in SeqsOfLen(S, n - 1), x \in S}

\* the RunCommand bodies that are sent (timeout only bounds the waits)
Payloads ==
    UNION {[server_ids : SeqsOfLen(ServerIds, a), commands : SeqsOfLen(CmdObjs, b)] :
             <<a, b>> \in {ab \in (0..MaxPayload) \X (0..MaxPayload) :
                               ab[1] + ab[2] <= MaxPayload}}

\* a column that is NULL / a parameter that is None (texts are sequences
\* of tokens)
None == <<>>

\* fernet.encrypt / fernet.decrypt with the key of secret.key (lines 133, 201)
Encrypt(password) == <<"fernet">> \o password
Decrypt(password_enc) == Tail(password_enc)

Names == {"web", "db"}
Addrs == {"10.0.0.1", "10.0.0.2"}
Passwords == {<<"pw">>}

\* line 127-128: the path the uploaded key of server `name` is written to
KeyPath(name) == <<"keys/", name, ".pem">>

NameOf(id) == IF id = 1 THEN "web" ELSE "db"
AddrOf(id) == IF id = 1 THEN "10.0.0.1" ELSE "10.0.0.2"

\* lines 135-137: the row add_server inserts
ServerRow(name, host, os, password, keyfile) ==
    [name |-> name, host |-> host, os |-> os,
     password_enc |-> IF password = None THEN None ELSE Encrypt(password),
     keyfile_path |-> IF keyfile THEN KeyPath(name) ELSE None]

\* longest server_ids where the store changes during the request
MaxApiIds == 2

ApiCmdObjs == [os : OSes, cmd : CmdTexts]

\* the bodies sent while the store changes: no command or one command
ApiPayloads ==
    UNION {[server_ids : SeqsOfLen(ServerIds, a),
            commands : {<<>>} \cup {<<c>> : c \in ApiCmdObjs}] : a \in 0..MaxApiIds}

\* the states of the servers table: any set of ids, each row with its os;
\* the servers were added with a password and no key file
ServerTables ==
    UNION {{[id \in S |-> ServerRow(NameOf(id), AddrOf(id), f[id], <<"pw">>, FALSE)] :
               f \in [S -> OSes]} : S \in SUBSET ServerIds}

NoPayload == [server_ids |-> <<>>, commands |-> <<>>]
NoRow == [os |-> "none", password_enc |-> None, keyfile_path |-> None]
NoResponse == [code |-> 0, body |-> <<>>]
NoApi == [op |-> "none", arg |-> 0, code |-> 0, body |-> <<>>]
NoOther == [pc |-> "none", ids |-> <<>>, k |-> 0]
NoAdds == <<>>

VARIABLES
    servers,        \* servers table: id -> row
    runs,           \* runs table, in insertion order
    payload,        \* the RunCommand body of the request
    pc,             \* position of run_command
    i,              \* index of sid in payload.server_ids (1-based)
    j,              \* index of cmd_obj in payload.commands (1-based)
    row,            \* the row fetched for sid
    server_output,
    server_status,
    results,
    response,       \* what the caller receives
    trace,          \* the calls made on SSH clients, in order
    run_seq,        \* sqlite_sequence of runs: the last id AUTOINCREMENT gave
    api,            \* the last response of delete_server / list_runs
    other,          \* a second run_command request, served by another thread
    adds,           \* the add_server requests in flight
    keyfiles        \* the files of the keys directory

vars ==
    <<servers, runs, payload, pc, i, j, row, server_output, server_status,
      results, response, trace, run_seq, api, other, adds, keyfiles>>

\* what one run_command request does not write
aside == <<api, other, adds, keyfiles>>

\* ------------------------------------------------------------ helpers
\* line 206-209: the command is run on the server
\* the filter without line 208
ApplicableAnyOs(c, server_os) ==
    c.os # NoKey /\ c.cmd # NoKey

Applicable(c, server_os) ==
    /\ c.os # NoKey
    /\ c.cmd # NoKey
    /\ c.os = server_os

\* line 95: output = out + ("\nERR:\n" + err if err else "")
SshOutput(out, err) ==
    out \o (IF err # <<>> THEN <<"\nERR:\n">> \o err ELSE <<>>)

\* line 211: f"$ {cmd_obj['cmd']}\n{output}\n"
Block(cmd, output) ==
    <<"$ ", cmd, "\n">> \o output \o <<"\n">>

\* the status of the last command wins
MergeStatusLast(old, status) ==
    status

\* line 212: if status != "ok": server_status = status
MergeStatus(old, status) ==
    IF status # "ok" THEN status ELSE old

\* line 218: json.dumps(payload.commands), as the tokens of the JSON text;
\* a dict without "cmd" is written without that key
JsonDict(c) ==
    <<"{", "\"os\": ", c.os>>
       \o (IF c.cmd # NoKey THEN <<", ", "\"cmd\": ", c.cmd>> ELSE <<>>)
       \o <<"}">>

RECURSIVE JsonItems(_)
JsonItems(cs) ==
    IF cs = <<>> THEN <<>>
    ELSE IF Len(cs) = 1 THEN JsonDict(cs[1])
    ELSE JsonDict(cs[1]) \o <<", ">> \o JsonItems(Tail(cs))

JsonDumps(cs) ==
    <<"[">> \o JsonItems(cs) \o <<"]">>

\* lines 216-218: the row INSERTed into runs (created_at, the wall clock of
\* the insert, is not kept: no statement of the program reads it back to
\* decide anything, list_runs orders by id)
RunRow(id, server_id, commands, output, status) ==
    [id |-> id, server_id |-> server_id, command |-> JsonDumps(commands),
     output |-> output, status |-> status]

sid == payload.server_ids[i]
cmd_obj == payload.commands[j]

\* a call on the SSH client of command j of the i-th requested id; err is
\* what stderr.read() returned (op "read")
Event(op, err) ==
    [op |-> op, pos |-> i, sid |-> sid, cmd |-> j, err |-> err]

\* lines 87-91, 201: what client.connect is called with
ConnectArgsBoth(r) ==
    [pkey |-> r.keyfile_path,
     password |-> IF r.password_enc = None THEN None ELSE Decrypt(r.password_enc)]

ConnectArgs(r) ==
    IF r.keyfile_path # None
    THEN [pkey |-> r.keyfile_path, password |-> None]
    ELSE [pkey |-> None,
          password |-> IF r.password_enc = None THEN None ELSE Decrypt(r.password_enc)]

\* line 88: the key file is there to be loaded (no key file: nothing to load)
KeyReadable(r) ==
    r.keyfile_path = None \/ r.keyfile_path \in keyfiles

\* lines 89, 91: client.connect is called
ConnectEvent(op) ==
    [op |-> op, pos |-> i, sid |-> sid, cmd |-> j, err |-> <<>>, args |-> ConnectArgs(row)]

\* lines 93-94: the two reads returned out and err
ReadEvent(out, err) ==
    [op |-> "read", pos |-> i, sid |-> sid, cmd |-> j, err |-> err, out |-> out]

\* the block put in front of the output instead of at its end
AccumulatePrepend(status, output) ==
    /\ server_output' = Block(cmd_obj.cmd, output) \o server_output
    /\ server_status' = MergeStatus(server_status, status)
    /\ j' = j + 1
    /\ pc' = "next_cmd"

\* lines 210-212 once run_ssh_command has returned (status, output)
Accumulate(status, output) ==
    /\ server_output' = server_output \o Block(cmd_obj.cmd, output)
    /\ server_status' = MergeStatus(server_status, status)
    /\ j' = j + 1
    /\ pc' = "next_cmd"

\* -------------------------------------------------------------- Init
Init ==
    /\ servers \in ServerTables
    /\ runs = <<>>
    /\ payload = NoPayload
    /\ pc = "idle"
    /\ i = 0
    /\ j = 0
    /\ row = NoRow
    /\ server_output = <<>>
    /\ server_status = "ok"
    /\ results = <<>>
    /\ response = NoResponse
    /\ trace = <<>>
    /\ run_seq = 0
    /\ api = NoApi
    /\ other = NoOther
    /\ adds = NoAdds
    /\ keyfiles = {}

\* ------------------------------------------------------------ actions
\* POST /api/run arrives with a body of P that passed RunCommand's validation
Call(P) ==
    /\ pc = "idle"
    /\ \E p \in P : payload' = p
    /\ results' = <<>>
    /\ i' = 1
    /\ pc' = "next_server"
    /\ UNCHANGED <<servers, runs, j, row, server_output, server_status, response, trace>>
    /\ UNCHANGED <<run_seq, aside>>

RunCommandCall ==
    Call(Payloads)

\* the lookup as delete_server does it (line 173): the miss ends the request
ServerNotFoundAborts ==
    /\ pc = "next_server"
    /\ i <= Len(payload.server_ids)
    /\ sid \notin DOMAIN servers
    /\ response' = [code |-> 404, body |-> <<"Server not found">>]
    /\ pc' = "done"
    /\ UNCHANGED <<servers, runs, payload, i, j, row, server_output, server_status,
                   results, trace>>
    /\ UNCHANGED <<run_seq, aside>>

\* lines 190-198: the SELECT finds no row
ServerNotFound ==
    /\ pc = "next_server"
    /\ i <= Len(payload.server_ids)
    /\ sid \notin DOMAIN servers
    /\ results' = Append(results,
          [server_id |-> sid, status |-> "error", output |-> <<"Server not found">>])
    /\ i' = i + 1
    /\ UNCHANGED <<servers, runs, payload, pc, j, row, server_output, server_status,
                   response, trace>>
    /\ UNCHANGED <<run_seq, aside>>

\* lines 190-204: the SELECT finds the row
ServerFound ==
    /\ pc = "next_server"
    /\ i <= Len(payload.server_ids)
    /\ sid \in DOMAIN servers
    /\ row' = servers[sid]
    /\ server_output' = <<>>
    /\ server_status' = "ok"
    /\ j' = 1
    /\ pc' = "next_cmd"
    /\ UNCHANGED <<servers, runs, payload, i, results, response, trace>>
    /\ UNCHANGED <<run_seq, aside>>

\* lines 205-209: continue
SkipCommand ==
    /\ pc = "next_cmd"
    /\ j <= Len(payload.commands)
    /\ ~Applicable(cmd_obj, row.os)
    /\ j' = j + 1
    /\ UNCHANGED <<servers, runs, payload, pc, i, row, server_output, server_status,
                   results, response, trace>>
    /\ UNCHANGED <<run_seq, aside>>

\* lines 85-91: client.connect returns
ConnectOk ==
    /\ pc = "next_cmd"
    /\ j <= Len(payload.commands)
    /\ Applicable(cmd_obj, row.os)
    /\ KeyReadable(row)
    /\ trace' = Append(trace, ConnectEvent("connect"))
    /\ pc' = "ssh_exec"
    /\ UNCHANGED <<servers, runs, payload, i, j, row, server_output, server_status,
                   results, response>>
    /\ UNCHANGED <<run_seq, aside>>

\* client.connect raises and nothing catches the exception
ConnectFailAborts ==
    /\ pc = "next_cmd"
    /\ j <= Len(payload.commands)
    /\ Applicable(cmd_obj, row.os)
    /\ KeyReadable(row)
    /\ trace' = Append(trace, ConnectEvent("connect_fail"))
    /\ response' = [code |-> 500, body |-> <<ConnectErrText>>]
    /\ pc' = "done"
    /\ UNCHANGED <<servers, runs, payload, i, j, row, server_output, server_status,
                   results>>
    /\ UNCHANGED <<run_seq, aside>>

\* lines 85-91, 97-100: client.connect raises
ConnectFail ==
    /\ pc = "next_cmd"
    /\ j <= Len(payload.commands)
    /\ Applicable(cmd_obj, row.os)
    /\ KeyReadable(row)
    /\ trace' = Append(trace, ConnectEvent("connect_fail"))
    /\ Accumulate("error", <<ConnectErrText>>)
    /\ UNCHANGED <<servers, runs, payload, i, row, results, response>>
    /\ UNCHANGED <<run_seq, aside>>

\* lines 88, 97-100: RSAKey.from_private_key_file raises (the file is gone,
\* or what was uploaded is no RSA key); no connect is made
KeyLoadFail ==
    /\ pc = "next_cmd"
    /\ j <= Len(payload.commands)
    /\ Applicable(cmd_obj, row.os)
    /\ row.keyfile_path # None
    /\ trace' = Append(trace, Event("key_fail", <<>>))
    /\ Accumulate("error", <<KeyErrText>>)
    /\ UNCHANGED <<servers, runs, payload, i, row, results, response>>
    /\ UNCHANGED <<run_seq, aside>>

\* line 92: client.exec_command returns the streams
ExecOk ==
    /\ pc = "ssh_exec"
    /\ trace' = Append(trace, Event("exec", <<>>))
    /\ pc' = "ssh_read"
    /\ UNCHANGED <<servers, runs, payload, i, j, row, server_output, server_status,
                   results, response>>
    /\ UNCHANGED <<run_seq, aside>>

\* lines 92, 97-100: client.exec_command raises
ExecRaise ==
    /\ pc = "ssh_exec"
    /\ trace' = Append(trace, Event("exec_fail", <<>>))
    /\ Accumulate("error", <<ExecErrText>>)
    /\ UNCHANGED <<servers, runs, payload, i, row, results, response>>
    /\ UNCHANGED <<run_seq, aside>>

\* lines 93-96, 100: both streams are read, the client is closed
ReadAndClose ==
    /\ pc = "ssh_read"
    /\ \E out \in StdOuts, err \in StdErrs :
          /\ Accumulate("ok", SshOutput(out, err))
          /\ trace' = trace \o <<ReadEvent(out, err), Event("close", <<>>)>>
    /\ UNCHANGED <<servers, runs, payload, i, row, results, response>>
    /\ UNCHANGED <<run_seq, aside>>

\* lines 93-94, 97-100: reading a stream raises
ReadRaise ==
    /\ pc = "ssh_read"
    /\ trace' = Append(trace, Event("read_fail", <<>>))
    /\ Accumulate("error", <<ReadErrText>>)
    /\ UNCHANGED <<servers, runs, payload, i, row, results, response>>
    /\ UNCHANGED <<run_seq, aside>>

\* the insert skipped for a server that ran nothing
InsertRunUnlessEmpty ==
    /\ pc = "next_cmd"
    /\ j > Len(payload.commands)
    /\ runs' = IF server_output = <<>> THEN runs
               ELSE Append(runs, RunRow(run_seq + 1, sid, payload.commands,
                                        server_output, server_status))
    /\ results' = Append(results,
          [server_id |-> sid, status |-> server_status, output |-> server_output])
    /\ i' = i + 1
    /\ pc' = "next_server"
    /\ UNCHANGED <<servers, payload, j, row, server_output, server_status, response, trace>>
    /\ run_seq' = run_seq + 1
    /\ UNCHANGED aside

\* the insert as an upsert: the earlier run of the server is replaced
InsertRunReplace ==
    /\ pc = "next_cmd"
    /\ j > Len(payload.commands)
    /\ runs' = Append(SelectSeq(runs, LAMBDA r : r.server_id # sid),
                      RunRow(run_seq + 1, sid, payload.commands,
                             server_output, server_status))
    /\ results' = Append(results,
          [server_id |-> sid, status |-> server_status, output |-> server_output])
    /\ i' = i + 1
    /\ pc' = "next_server"
    /\ UNCHANGED <<servers, payload, j, row, server_output, server_status, response, trace>>
    /\ run_seq' = run_seq + 1
    /\ UNCHANGED aside

\* lines 214-222: the commands are through; insert the run, append the result
InsertRun ==
    /\ pc = "next_cmd"
    /\ j > Len(payload.commands)
    /\ runs' = Append(runs, RunRow(run_seq + 1, sid, payload.commands,
                                   server_output, server_status))
    /\ results' = Append(results,
          [server_id |-> sid, status |-> server_status, output |-> server_output])
    /\ i' = i + 1
    /\ pc' = "next_server"
    /\ UNCHANGED <<servers, payload, j, row, server_output, server_status, response, trace>>
    /\ run_seq' = run_seq + 1
    /\ UNCHANGED aside

\* line 223: return results
Return ==
    /\ pc = "next_server"
    /\ i > Len(payload.server_ids)
    /\ response' = [code |-> 200, body |-> results]
    /\ pc' = "done"
    /\ UNCHANGED <<servers, runs, payload, i, j, row, server_output, server_status,
                   results, trace>>
    /\ UNCHANGED <<run_seq, aside>>

Next ==
    \/ RunCommandCall
    \/ ServerNotFound
    \/ ServerFound
    \/ SkipCommand
    \/ ConnectOk
    \/ ConnectFail
    \/ ExecOk
    \/ ExecRaise
    \/ ReadAndClose
    \/ ReadRaise
    \/ InsertRun
    \/ Return

Spec == Init /\ [][Next]_vars

TypeOK ==
    /\ servers \in ServerTables
    /\ payload \in Payloads
    /\ pc \in {"idle", "next_server", "next_cmd", "ssh_exec", "ssh_read", "done"}
    /\ server_status \in {"ok", "error"}
    /\ Len(results) <= MaxPayload
    /\ Len(runs) <= MaxPayload
\* ------------------------------------------- the store while it changes
\* One run_command request as above, while delete_server and list_runs
\* requests are served by other threads (SpecApi), and one where the servers
\* were added with a password, a key file or both (SpecKeys).
\* line 227: limit: int = 50
DefaultLimit == 50

\* the limits asked for; SQLite takes a negative LIMIT as no limit
Limits == {-1, 0, 1, DefaultLimit}

KeyServerTables ==
    UNION {{[id \in S |-> ServerRow(NameOf(id), AddrOf(id), "ubuntu", c[id][1], c[id][2])] :
               c \in [S -> {<<<<"pw">>, FALSE>>, <<None, TRUE>>, <<<<"pw">>, TRUE>>}]} :
           S \in SUBSET ServerIds}

\* the key files add_server wrote for the rows of a table
KeyFilesOf(table) ==
    {table[id].keyfile_path : id \in DOMAIN table} \ {None}

InitKeys ==
    /\ servers \in KeyServerTables
    /\ keyfiles = KeyFilesOf(servers)
    /\ runs = <<>>
    /\ payload = NoPayload
    /\ pc = "idle"
    /\ i = 0
    /\ j = 0
    /\ row = NoRow
    /\ server_output = <<>>
    /\ server_status = "ok"
    /\ results = <<>>
    /\ response = NoResponse
    /\ trace = <<>>
    /\ run_seq = 0
    /\ api = NoApi
    /\ other = NoOther
    /\ adds = NoAdds

RunCommandCallApi ==
    Call(ApiPayloads)

dispatchVars ==
    <<payload, pc, i, j, row, server_output, server_status, results, response, trace>>

\* delete_server without line 180
DeleteServerKeepRuns(id) ==
    /\ id \in DOMAIN servers
    /\ keyfiles' = keyfiles \ {servers[id].keyfile_path}
    /\ servers' = [s \in DOMAIN servers \ {id} |-> servers[s]]
    /\ api' = [op |-> "delete", arg |-> id, code |-> 200, body |-> <<>>]
    /\ UNCHANGED <<runs, run_seq, other, adds, dispatchVars>>

\* lines 165-184: DELETE /api/servers/delete/{id}
DeleteServer(id) ==
    \/ /\ id \notin DOMAIN servers
       /\ api' = [op |-> "delete", arg |-> id, code |-> 404, body |-> <<"Server not found">>]
       /\ UNCHANGED <<servers, runs, keyfiles, run_seq, other, adds, dispatchVars>>
    \/ /\ id \in DOMAIN servers
       /\ keyfiles' = keyfiles \ {servers[id].keyfile_path}
       /\ runs' = SelectSeq(runs, LAMBDA r : r.server_id # id)
       /\ servers' = [s \in DOMAIN servers \ {id} |-> servers[s]]
       /\ api' = [op |-> "delete", arg |-> id, code |-> 200, body |-> <<>>]
       /\ UNCHANGED <<run_seq, other, adds, dispatchVars>>

\* ORDER BY id ASC
RECURSIVE OrderByIdAsc(_)
OrderByIdAsc(rs) ==
    IF rs = <<>> THEN <<>>
    ELSE LET least == CHOOSE a \in DOMAIN rs : \A b \in DOMAIN rs : rs[a].id <= rs[b].id
         IN  <<rs[least]>> \o OrderByIdAsc(SelectSeq(rs, LAMBDA r : r.id # rs[least].id))

\* line 230: ORDER BY id DESC
RECURSIVE OrderByIdDesc(_)
OrderByIdDesc(rs) ==
    IF rs = <<>> THEN <<>>
    ELSE LET top == CHOOSE a \in DOMAIN rs : \A b \in DOMAIN rs : rs[b].id <= rs[a].id
         IN  <<rs[top]>> \o OrderByIdDesc(SelectSeq(rs, LAMBDA r : r.id # rs[top].id))

\* line 230: LIMIT ?
Limit(rs, n) ==
    IF n < 0 \/ n >= Len(rs) THEN rs ELSE SubSeq(rs, 1, n)

\* line 235: the dict made of a row
ListRow(r) ==
    [id |-> r.id, server_id |-> r.server_id, command |-> r.command, status |-> r.status]

\* the query with the rows in ascending order of id
SelectRunsOldestFirst(n) ==
    LET rows == Limit(OrderByIdAsc(runs), n)
    IN  [k \in DOMAIN rows |-> ListRow(rows[k])]

\* lines 228-236: the query and the list made of its rows
SelectRuns(n) ==
    LET rows == Limit(OrderByIdDesc(runs), n)
    IN  [k \in DOMAIN rows |-> ListRow(rows[k])]

\* lines 226-236: GET /api/runs?limit=n
ListRuns(n) ==
    /\ api' = [op |-> "list", arg |-> n, code |-> 200, body |-> SelectRuns(n)]
    /\ UNCHANGED <<servers, runs, keyfiles, run_seq, other, adds, dispatchVars>>

NextApi ==
    \/ RunCommandCallApi
    \/ ServerNotFound
    \/ ServerFound
    \/ SkipCommand
    \/ ConnectOk
    \/ ConnectFail
    \/ ExecOk
    \/ ExecRaise
    \/ ReadAndClose
    \/ ReadRaise
    \/ InsertRun
    \/ Return
    \/ \E id \in ServerIds : DeleteServer(id)
    \/ \E n \in Limits : ListRuns(n)

SpecApi == Init /\ [][NextApi]_vars

NextKeys ==
    \/ RunCommandCallApi
    \/ ServerNotFound
    \/ ServerFound
    \/ SkipCommand
    \/ KeyLoadFail
    \/ ConnectOk
    \/ ConnectFail
    \/ ExecOk
    \/ ExecRaise
    \/ ReadAndClose
    \/ ReadRaise
    \/ InsertRun
    \/ Return
    \/ \E id \in ServerIds : DeleteServer(id)

SpecKeys == InitKeys /\ [][NextKeys]_vars

\* --------------------------------------------- two requests at a time
\* run_command is a sync endpoint, served by a thread of the pool: a second
\* POST /api/run runs through the same code on another thread. The second
\* request sends no command, {"server_ids": ids, "commands": []}, so its
\* loop at 205-212 is empty and it goes from each SELECT to the INSERT.
\* longest server_ids of the second request
MaxOtherIds == 1

OtherIds ==
    UNION {SeqsOfLen(ServerIds, a) : a \in 1..MaxOtherIds}

mainVars ==
    <<servers, payload, pc, i, j, row, server_output, server_status, results,
      response, trace, api, adds, keyfiles>>

\* lines 188-189 of the second request
OtherCall ==
    /\ other.pc = "none"
    /\ \E ids \in OtherIds :
          other' = [pc |-> "next_server", ids |-> ids, k |-> 1]
    /\ UNCHANGED <<runs, run_seq, mainVars>>

\* lines 190-198 of the second request: no row, next id
OtherServerNotFound ==
    /\ other.pc = "next_server"
    /\ other.k <= Len(other.ids)
    /\ other.ids[other.k] \notin DOMAIN servers
    /\ other' = [other EXCEPT !.k = other.k + 1]
    /\ UNCHANGED <<runs, run_seq, mainVars>>

\* lines 190-212 of the second request: the row is there, nothing to run
OtherServerFound ==
    /\ other.pc = "next_server"
    /\ other.k <= Len(other.ids)
    /\ other.ids[other.k] \in DOMAIN servers
    /\ other' = [other EXCEPT !.pc = "insert"]
    /\ UNCHANGED <<runs, run_seq, mainVars>>

\* the INSERT with an id the thread counts itself, ignored on a conflict
OtherInsertRunOwnId ==
    /\ other.pc = "insert"
    /\ runs' = IF \E k \in DOMAIN runs : runs[k].id = other.k
               THEN runs
               ELSE Append(runs, RunRow(other.k, other.ids[other.k], <<>>, <<>>, "ok"))
    /\ run_seq' = run_seq + 1
    /\ other' = [other EXCEPT !.pc = "next_server", !.k = other.k + 1]
    /\ UNCHANGED mainVars

\* lines 214-222 of the second request
OtherInsertRun ==
    /\ other.pc = "insert"
    /\ runs' = Append(runs, RunRow(run_seq + 1, other.ids[other.k], <<>>, <<>>, "ok"))
    /\ run_seq' = run_seq + 1
    /\ other' = [other EXCEPT !.pc = "next_server", !.k = other.k + 1]
    /\ UNCHANGED mainVars

\* line 223 of the second request
OtherReturn ==
    /\ other.pc = "next_server"
    /\ other.k > Len(other.ids)
    /\ other' = [other EXCEPT !.pc = "done"]
    /\ UNCHANGED <<runs, run_seq, mainVars>>

NextPair ==
    \/ RunCommandCallApi
    \/ ServerNotFound
    \/ ServerFound
    \/ SkipCommand
    \/ ConnectOk
    \/ ConnectFail
    \/ ExecOk
    \/ ExecRaise
    \/ ReadAndClose
    \/ ReadRaise
    \/ InsertRun
    \/ Return
    \/ OtherCall
    \/ OtherServerNotFound
    \/ OtherServerFound
    \/ OtherInsertRun
    \/ OtherReturn

SpecPair == Init /\ [][NextPair]_vars

\* ------------------------------------------------------- add_server
\* add_server is an async endpoint: its requests run on the event loop and
\* one runs until it awaits. The only await is keyfile.read() (line 130),
\* between the duplicate check (119-123) and the INSERT (135-138); a
\* request without a key file runs from the check to the commit in one go.
\* The servers table has host UNIQUE (line 35) and no constraint on name.
\* add_server requests with a key file that may be in flight at a time
MaxAdds == 2

AddProcs == 1..MaxAdds

NoAdd == [pc |-> "idle", name |-> "", host |-> ""]

\* line 119: SELECT id FROM servers WHERE host=? OR name=?
Existing(name, host) ==
    \E id \in DOMAIN servers : servers[id].host = host \/ servers[id].name = name

\* the id AUTOINCREMENT gives (no row is deleted while servers are added)
NextServerId == Cardinality(DOMAIN servers) + 1

\* lines 135-138: the INSERT, which the UNIQUE index on host may refuse
InsertServer(name, host, keyfile) ==
    servers' = [id \in DOMAIN servers \cup {NextServerId} |->
                   IF id \in DOMAIN servers THEN servers[id]
                   ELSE ServerRow(name, host, "ubuntu",
                                  IF keyfile THEN None ELSE <<"pw">>, keyfile)]

addFrame ==
    <<runs, payload, pc, i, j, row, server_output, server_status, results,
      response, trace, run_seq, other>>

InitAdd ==
    /\ servers = <<>>
    /\ keyfiles = {}
    /\ adds = [p \in AddProcs |-> NoAdd]
    /\ runs = <<>>
    /\ payload = NoPayload
    /\ pc = "idle"
    /\ i = 0
    /\ j = 0
    /\ row = NoRow
    /\ server_output = <<>>
    /\ server_status = "ok"
    /\ results = <<>>
    /\ response = NoResponse
    /\ trace = <<>>
    /\ run_seq = 0
    /\ api = NoApi
    /\ other = NoOther

\* lines 115-142 for a request with a password and no key file
AddServerPassword(name, host) ==
    /\ \/ /\ Existing(name, host)
          /\ api' = [op |-> "add", arg |-> <<name, host>>, code |-> 400, body |-> <<>>]
          /\ UNCHANGED servers
       \/ /\ ~Existing(name, host)
          /\ InsertServer(name, host, FALSE)
          /\ api' = [op |-> "add", arg |-> <<name, host>>, code |-> 200, body |-> <<>>]
    /\ UNCHANGED <<adds, keyfiles, addFrame>>

\* lines 115-130 for a request with a key file: the check, then the file is
\* opened and the request waits for the upload
AddServerCheck(p, name, host) ==
    /\ adds[p].pc = "idle"
    /\ \/ /\ Existing(name, host)
          /\ api' = [op |-> "add", arg |-> <<name, host>>, code |-> 400, body |-> <<>>]
          /\ UNCHANGED <<adds, keyfiles>>
       \/ /\ ~Existing(name, host)
          /\ keyfiles' = keyfiles \cup {KeyPath(name)}
          /\ adds' = [adds EXCEPT ![p] = [pc |-> "await", name |-> name, host |-> host]]
          /\ UNCHANGED api
    /\ UNCHANGED <<servers, addFrame>>

\* lines 130-142 for a request with a key file: the upload is read, the row
\* is inserted; the UNIQUE index on host raises sqlite3.IntegrityError
AddServerInsert(p) ==
    /\ adds[p].pc = "await"
    /\ LET name == adds[p].name
           host == adds[p].host
       IN  \/ /\ \E id \in DOMAIN servers : servers[id].host = host
              /\ api' = [op |-> "add", arg |-> <<name, host>>, code |-> 500, body |-> <<>>]
              /\ UNCHANGED servers
           \/ /\ ~\E id \in DOMAIN servers : servers[id].host = host
              /\ InsertServer(name, host, TRUE)
              /\ api' = [op |-> "add", arg |-> <<name, host>>, code |-> 200, body |-> <<>>]
    /\ adds' = [adds EXCEPT ![p] = NoAdd]
    /\ UNCHANGED <<keyfiles, addFrame>>

NextAdd ==
    \/ \E name \in Names, host \in Addrs : AddServerPassword(name, host)
    \/ \E p \in AddProcs, name \in Names, host \in Addrs : AddServerCheck(p, name, host)
    \/ \E p \in AddProcs : AddServerInsert(p)

SpecAdd == InitAdd /\ [][NextAdd]_vars

\* ------------------------------------------------------------ claims
Range(s) == {s[k] : k \in DOMAIN s}

\* s without the repetitions, first occurrences kept in order
RECURSIVE Distinct(_)
Distinct(s) ==
    IF s = <<>> THEN <<>>
    ELSE LET front == Distinct(SubSeq(s, 1, Len(s) - 1))
             last == s[Len(s)]
         IN  IF last \in Range(front) THEN front ELSE Append(front, last)

Ids == payload.server_ids
Cmds == payload.commands
Resolved(k) == Ids[k] \in DOMAIN servers
AttemptOps == {"connect", "connect_fail"}
FailOps == {"connect_fail", "exec_fail", "read_fail"}

\* C1: when the dispatch returns, the result sequence has exactly one entry
\* per distinct requested id, in the order the ids were first requested.
C1_OneResultPerDistinctId ==
    pc = "done" =>
        /\ Len(response.body) = Cardinality(Range(Ids))
        /\ [k \in DOMAIN response.body |-> response.body[k].server_id] = Distinct(Ids)

\* C2: a failed connect makes the host's result Failed, and after a failed
\* connect for host H no later connect or exec for H occurs in the dispatch.
C2_NothingAfterFailedConnect ==
    /\ \A a, b \in DOMAIN trace :
          (a < b /\ trace[a].op = "connect_fail" /\ trace[b].sid = trace[a].sid)
              => trace[b].op \notin {"connect", "connect_fail", "exec", "exec_fail"}
    /\ \A a \in DOMAIN trace :
          (trace[a].op = "connect_fail" /\ trace[a].pos <= Len(results))
              => results[trace[a].pos].status = "error"

\* C3: a command whose error channel is not empty makes the status of its
\* host Failed, whatever the other commands of the host produced.
C3_StderrMeansFailed ==
    \A a \in DOMAIN trace :
        (trace[a].op = "read" /\ trace[a].err # <<>> /\ trace[a].pos <= Len(results))
            => results[trace[a].pos].status = "error"

\* C4: when the dispatch moves on to the next host or returns, every session
\* it opened has been closed.
C4_SessionsClosed ==
    pc \in {"next_server", "done"} =>
        \A a \in DOMAIN trace :
            trace[a].op = "connect" =>
                \E b \in DOMAIN trace :
                    /\ a < b
                    /\ trace[b].op = "close"
                    /\ trace[b].pos = trace[a].pos
                    /\ trace[b].cmd = trace[a].cmd

\* C5: at most one connect is attempted for each requested host of a
\* dispatch, however many of the commands apply to it.
C5_OneConnectPerHost ==
    \A a, b \in DOMAIN trace :
        (/\ trace[a].op \in AttemptOps
         /\ trace[b].op \in AttemptOps
         /\ trace[a].pos = trace[b].pos) => a = b

\* C6: an id with no row in the servers table gets the result (error,
\* "Server not found"), no call on an SSH client is made for it, and the
\* request goes on: the response reports every requested id, in order.
C6_UnknownIdReported ==
    /\ \A k \in DOMAIN Ids :
          ~Resolved(k) =>
              /\ \A a \in DOMAIN trace : trace[a].pos # k /\ trace[a].sid # Ids[k]
              /\ k <= Len(results) =>
                    results[k] = [server_id |-> Ids[k], status |-> "error",
                                  output |-> <<"Server not found">>]
    /\ (pc = "done" /\ \E k \in DOMAIN Ids : ~Resolved(k)) =>
          /\ response.code = 200
          /\ Len(response.body) = Len(Ids)
          /\ \A k \in DOMAIN Ids : response.body[k].server_id = Ids[k]

\* an unknown id was followed by a known one, on which a command ran
C6_Witness ==
    /\ pc = "done"
    /\ \E k \in DOMAIN Ids :
          /\ ~Resolved(k)
          /\ k + 1 \in DOMAIN Ids
          /\ Resolved(k + 1)
          /\ \E a \in DOMAIN trace : trace[a].pos = k + 1 /\ trace[a].op = "exec"

\* C7: every call on an SSH client (connect or exec) is for a command whose
\* os equals the os of the host it is made on.
C7_OnlyMatchingOs ==
    \A a \in DOMAIN trace :
        /\ Cmds[trace[a].cmd].os = servers[trace[a].sid].os
        /\ Cmds[trace[a].cmd].cmd \in CmdTexts

\* a command ran on a host while another command of the request, of another
\* os, was not sent to that host
C7_Witness ==
    /\ pc = "done"
    /\ \E a \in DOMAIN trace :
          /\ trace[a].op = "exec"
          /\ \E c \in DOMAIN Cmds :
                /\ Cmds[c].os # servers[trace[a].sid].os
                /\ \A b \in DOMAIN trace : ~(trace[b].pos = trace[a].pos /\ trace[b].cmd = c)

\* no command of the request is for the os of the k-th requested host
NothingApplies(k) ==
    \A c \in DOMAIN Cmds :
        Cmds[c].os # servers[Ids[k]].os \/ Cmds[c].cmd \notin CmdTexts

\* the place in the runs table of the record of the k-th requested id
RunIndex(k) == Cardinality({m \in 1..k : Resolved(m)})

C9_EmptyRequestRejected ==
    (pc = "done" /\ (Ids = <<>> \/ Cmds = <<>>)) =>
        /\ response.code # 200
        /\ trace = <<>>
        /\ runs = <<>>

\* C10: a connect, exec or read failure does not end the dispatch: the host
\* of the failure is classified error and its output holds the failure text,
\* every applicable command of every resolved host is still attempted, hosts
\* without a failure are reported ok, and the response reports every
\* requested id.
FailText(op) ==
    CASE op = "connect_fail" -> ConnectErrText
      [] op = "exec_fail" -> ExecErrText
      [] op = "read_fail" -> ReadErrText

C10_FailureDoesNotAbort ==
    /\ \A a \in DOMAIN trace :
          (trace[a].op \in FailOps /\ trace[a].pos <= Len(results)) =>
              /\ results[trace[a].pos].status = "error"
              /\ FailText(trace[a].op) \in Range(results[trace[a].pos].output)
    /\ \A k \in DOMAIN results :
          (Resolved(k) /\ \A a \in DOMAIN trace : trace[a].pos = k => trace[a].op \notin FailOps)
              => results[k].status = "ok"
    /\ (pc = "done" /\ \E a \in DOMAIN trace : trace[a].op \in FailOps) =>
          /\ response.code = 200
          /\ Len(response.body) = Len(Ids)
          /\ \A k \in DOMAIN Ids :
                /\ response.body[k] = results[k]
                /\ response.body[k].server_id = Ids[k]
                /\ Resolved(k) =>
                      \A c \in DOMAIN Cmds :
                          (Cmds[c].os = servers[Ids[k]].os /\ Cmds[c].cmd \in CmdTexts) =>
                              \E a \in DOMAIN trace :
                                  /\ trace[a].pos = k
                                  /\ trace[a].cmd = c
                                  /\ trace[a].op \in AttemptOps

\* the first host failed to connect, the second ran its command and is ok
C10_Witness ==
    /\ pc = "done"
    /\ Len(results) = 2
    /\ \E a \in DOMAIN trace : trace[a].pos = 1 /\ trace[a].op \in FailOps
    /\ \E a \in DOMAIN trace : trace[a].pos = 2 /\ trace[a].op = "close"
    /\ response.body[1].status = "error"
    /\ response.body[2].status = "ok"
\* ---------------------------------------------- claims C11, C13, C17
\* the events of the k-th requested id
EventsAt(k) == SelectSeq(trace, LAMBDA e : e.pos = k)

\* the commands of the request that are for the os of the k-th requested
\* host, as indices into the request, in request order
SentTo(k) ==
    SelectSeq([c \in DOMAIN Cmds |-> c],
              LAMBDA c : Cmds[c].os = servers[Ids[k]].os /\ Cmds[c].cmd \in CmdTexts)

\* the k-th requested host is being processed
InProgress(k) == k = i /\ pc \in {"next_cmd", "ssh_exec", "ssh_read"}

\* C11: the status of a host is error if and only if one of its commands
\* was classified error (run_ssh_command returned a status other than ok);
\* this holds while the host is processed, so a later command that is ok
\* never turns the status back, and in the result of the host.
C11_StatusIffSomeCommandFailed ==
    \A k \in DOMAIN Ids :
        LET failed == \E a \in DOMAIN trace : trace[a].pos = k /\ trace[a].op \in FailOps
        IN  /\ (InProgress(k) /\ Resolved(k)) => (server_status = "error" <=> failed)
            /\ (k <= Len(results) /\ Resolved(k)) => (results[k].status = "error" <=> failed)

\* a command of a host failed, a later command of the same host was ok, and
\* the host is reported error
C11_Witness ==
    /\ pc = "done"
    /\ \E a, b \in DOMAIN trace :
          /\ a < b
          /\ trace[a].pos = trace[b].pos
          /\ trace[a].op \in FailOps
          /\ trace[b].op = "read"
          /\ results[trace[a].pos].status = "error"

\* C13: the command payload of the run record of a host is the list of the
\* commands that were sent to that host, those of the host's os, and holds
\* no command that was filtered out.
C13_PayloadIsWhatWasSent ==
    \A k \in DOMAIN results :
        Resolved(k) =>
            runs[RunIndex(k)].command
                = JsonDumps([n \in DOMAIN SentTo(k) |-> Cmds[SentTo(k)[n]]])

\* what run_ssh_command returned for the event that ended command e.cmd
OutputOf(e) ==
    CASE e.op = "connect_fail" -> <<ConnectErrText>>
      [] e.op = "exec_fail" -> <<ExecErrText>>
      [] e.op = "read_fail" -> <<ReadErrText>>
      [] e.op = "read" -> IF e.err = <<>> THEN e.out ELSE e.out \o <<"\nERR:\n">> \o e.err

EndOps == FailOps \cup {"read"}

RECURSIVE BlocksOf(_)
BlocksOf(es) ==
    IF es = <<>> THEN <<>>
    ELSE <<"$ ", Cmds[es[1].cmd].cmd, "\n">> \o OutputOf(es[1]) \o <<"\n">>
            \o BlocksOf(Tail(es))

\* C17: for a host that was processed, the commands attempted are the
\* applicable commands, each once, in request order, also after a failure,
\* and the host's output is the concatenation, in that order, of one block
\* "$ <command>\n<output>\n" per applicable command.
C17_EachCommandOnceInOrder ==
    \A k \in DOMAIN results :
        Resolved(k) =>
            LET attempts == SelectSeq(trace, LAMBDA e : e.pos = k /\ e.op \in AttemptOps)
                ends == SelectSeq(trace, LAMBDA e : e.pos = k /\ e.op \in EndOps)
                sent == SentTo(k)
            IN  /\ Len(attempts) = Len(sent)
                /\ Len(ends) = Len(sent)
                /\ \A n \in DOMAIN sent : attempts[n].cmd = sent[n] /\ ends[n].cmd = sent[n]
                /\ results[k].output = BlocksOf(ends)
                /\ runs[RunIndex(k)].output = results[k].output

\* a host ran two commands, the first failed, the second printed to stdout
C17_Witness ==
    /\ pc = "done"
    /\ \E k \in DOMAIN results :
          /\ Resolved(k)
          /\ Len(SentTo(k)) >= 2
          /\ \E a, b \in DOMAIN trace :
                /\ a < b
                /\ trace[a].pos = k /\ trace[a].op \in FailOps
                /\ trace[b].pos = k /\ trace[b].op = "read"
\* ------------------------------------ claims C14, C15, C16, C18, C20
\* C14: a step of delete_server that removes host H leaves no run record of
\* H and leaves the records of the other hosts as they were, in order; a
\* delete of an id that has no row answers 404 and changes neither table.
C14_DeleteCascades ==
    [][/\ \A h \in DOMAIN servers \ DOMAIN servers' :
             /\ \A k \in DOMAIN runs' : runs'[k].server_id # h
             /\ runs' = SelectSeq(runs, LAMBDA r : r.server_id # h)
             /\ servers' = [s \in DOMAIN servers \ {h} |-> servers[s]]
             /\ api' = [op |-> "delete", arg |-> h, code |-> 200, body |-> <<>>]
       /\ (api' # api /\ api'.op = "delete") =>
             IF api'.arg \in DOMAIN servers
             THEN api'.code = 200 /\ api'.arg \notin DOMAIN servers'
             ELSE api'.code = 404 /\ servers' = servers /\ runs' = runs
      ]_vars

\* a host was deleted and its records with it, the record of another host
\* is still there
C14_Witness ==
    /\ api.op = "delete"
    /\ api.code = 200
    /\ run_seq > Len(runs)
    /\ runs # <<>>
    /\ \A k \in DOMAIN runs : runs[k].server_id # api.arg

\* the place of the record with this id in the runs table (write order)
PlaceOf(id) == CHOOSE k \in DOMAIN runs : runs[k].id = id

\* C15: a listing with limit n returns the n most recent run records (all
\* of them if there are fewer, or if n is negative), each with the
\* server_id, status and command it was written with, a record written
\* later before one written earlier.
C15_ListingNewestFirst ==
    [][(api' # api /\ api'.op = "list") =>
          LET n == api'.arg
              body == api'.body
              listed == {body[a].id : a \in DOMAIN body}
          IN  /\ api'.code = 200
              /\ Len(body) = IF n < 0 \/ n > Len(runs) THEN Len(runs) ELSE n
              /\ \A a \in DOMAIN body :
                    \E k \in DOMAIN runs :
                        /\ runs[k].id = body[a].id
                        /\ runs[k].server_id = body[a].server_id
                        /\ runs[k].status = body[a].status
                        /\ runs[k].command = body[a].command
              /\ \A a, b \in DOMAIN body :
                    a < b => PlaceOf(body[a].id) > PlaceOf(body[b].id)
              /\ \A k \in DOMAIN runs :
                    runs[k].id \notin listed =>
                        \A a \in DOMAIN body : PlaceOf(body[a].id) > k
      ]_vars

\* two records were listed, the later one first
C15_Witness ==
    /\ api.op = "list"
    /\ Len(api.body) = 2
    /\ Len(runs) = 2
    /\ api.body[1].id = runs[2].id
    /\ api.body[2].id = runs[1].id

\* C16: client.connect is called with the key of the host's key file and no
\* password if the host has a key file, with the password and no key
\* otherwise, and never with both.
C16_OneAuthMethod ==
    \A a \in DOMAIN trace :
        trace[a].op \in AttemptOps =>
            LET e == trace[a]
            IN  /\ ~(e.args.pkey # None /\ e.args.password # None)
                /\ e.sid \in DOMAIN servers =>
                      IF servers[e.sid].keyfile_path # None
                      THEN /\ e.args.pkey = servers[e.sid].keyfile_path
                           /\ e.args.password = None
                      ELSE /\ e.args.pkey = None
                           /\ e.args.password \in Passwords

\* a connect failed and another was made on a host that has a key file and
\* a password
C16_Witness ==
    \E a, b \in DOMAIN trace :
        /\ a < b
        /\ trace[a].op = "connect_fail"
        /\ trace[b].op = "connect"
        /\ trace[b].sid \in DOMAIN servers
        /\ servers[trace[b].sid].keyfile_path # None
        /\ servers[trace[b].sid].password_enc # None

\* C18: a run record stays as it was written until its host is deleted; a
\* step of run_command leaves the servers table alone and changes the runs
\* table only by appending one record; a listing changes neither table.
C18_RecordsNeverModified ==
    [][/\ \A k \in DOMAIN runs :
             \/ \E m \in DOMAIN runs' : runs'[m] = runs[k]
             \/ /\ runs[k].server_id \in DOMAIN servers \ DOMAIN servers'
                /\ \A m \in DOMAIN runs' : runs'[m].id # runs[k].id
       /\ dispatchVars' # dispatchVars =>
             /\ servers' = servers
             /\ \/ runs' = runs
                \/ /\ Len(runs') = Len(runs) + 1
                   /\ SubSeq(runs', 1, Len(runs)) = runs
       /\ (api' # api /\ api'.op = "list") =>
             /\ servers' = servers
             /\ runs' = runs
      ]_vars

\* the same host was processed twice, both records are there, and the runs
\* were listed
C18_Witness ==
    /\ pc = "done"
    /\ Len(runs) = 2
    /\ runs[1].server_id = runs[2].server_id
    /\ api.op = "list"
    /\ Len(api.body) = 2

\* C20: every run record is of a host that has a row in the servers table.
C20_RunsReferToServers ==
    \A k \in DOMAIN runs : runs[k].server_id \in DOMAIN servers
\* ---------------------------------------------------------- claim C12
\* the records of host h
RecordsOf(h) == {k \in DOMAIN runs : runs[k].server_id = h}

\* how many of the first n entries of ids are h
Occurrences(ids, n, h) == Cardinality({k \in 1..n : k <= Len(ids) /\ ids[k] = h})

C19_UniqueHostAndName ==
    \A a, b \in DOMAIN servers :
        a # b => servers[a].host # servers[b].host /\ servers[a].name # servers[b].name
====
